---- MODULE Spec2Model ----
(***************************************************************************)
(* Model of the Seed-VC text-to-speech API (src/seed-vc/api.py).           *)
(*                                                                         *)
(* Python strings that the code inspects character by character (the       *)
(* Authorization header, the secrets, user ids, paths) are sequences of    *)
(* one-character strings.  Strings the code only compares or passes on     *)
(* (voices, fixed detail messages) are TLA+ strings.  An optional value    *)
(* (None or a str) is a record [some, v].                                  *)
(***************************************************************************)
EXTENDS Integers, Sequences, FiniteSets, TLC

VARIABLES
    API_KEY,          \* api.py:19, os.getenv("API_KEY"): None or a str
    GEMINI_API_KEY,   \* api.py:20, os.getenv("GEMINI_API_KEY"): None or a str
    dirs,             \* directories that exist in the file system
    files,            \* regular files of the file system: path -> content
    req,              \* per request slot: inputs, position, locals, response
    authHeader,       \* verifier harness: the header value last verified
    authResult        \* verifier harness: what verify_api_key did with it

vars == <<API_KEY, GEMINI_API_KEY, dirs, files, req, authHeader, authResult>>

-----------------------------------------------------------------------------
(* Optional values and strings *)

None == [some |-> FALSE, v |-> <<>>]
Some(x) == [some |-> TRUE, v |-> x]

\* Python truthiness of an Optional[str]: None and "" are falsy
Falsy(o) == (~o.some) \/ o.v = <<>>

StartsWith(s, p) == Len(s) >= Len(p) /\ SubSeq(s, 1, Len(p)) = p

\* str.replace(old, new): every non-overlapping occurrence, left to right
RECURSIVE Replace(_, _, _)
Replace(s, old, new) ==
    IF Len(s) = 0 THEN s
    ELSE IF StartsWith(s, old)
         THEN new \o Replace(SubSeq(s, Len(old) + 1, Len(s)), old, new)
         ELSE <<s[1]>> \o Replace(Tail(s), old, new)

RECURSIVE Concat(_)
Concat(ss) == IF Len(ss) = 0 THEN <<>> ELSE ss[1] \o Concat(Tail(ss))

BearerPrefix == <<"B", "e", "a", "r", "e", "r", " ">>

-----------------------------------------------------------------------------
(* Bounds *)

MaxPieces == 3      \* verifier harness: a header or secret has at most this many pieces
MaxAudioLen == 1    \* longest audio payload the synthesis capability returns
NumReq == 2         \* requests in flight at once in the concurrent specification

-----------------------------------------------------------------------------
(* Credential verifier, api.py:28-42 *)

\* lines 33-36: the token the verifier extracts from a non-empty header
ExtractToken(authorization) ==
    IF StartsWith(authorization, BearerPrefix)
    THEN Replace(authorization, BearerPrefix, <<>>)
    ELSE authorization

\* token != API_KEY, a str compared with None or a str
TokenDiffers(token, key) == (~key.some) \/ token # key.v

\* variant: the comparison is skipped when no secret is configured
verify_api_key_openWhenUnset(authorization, key) ==
    IF Falsy(authorization)
    THEN [ok |-> FALSE, status |-> 401, detail |-> "API key is missing", token |-> <<>>]
    ELSE IF key.some /\ TokenDiffers(ExtractToken(authorization.v), key)
         THEN [ok |-> FALSE, status |-> 401, detail |-> "Invalid API key", token |-> <<>>]
         ELSE [ok |-> TRUE, status |-> 0, detail |-> "", token |-> ExtractToken(authorization.v)]

\* the whole dependency: a 401 HTTPException, or the token returned
verify_api_key(authorization, key) ==
    IF Falsy(authorization)
    THEN [ok |-> FALSE, status |-> 401, detail |-> "API key is missing", token |-> <<>>]
    ELSE IF TokenDiffers(ExtractToken(authorization.v), key)
         THEN [ok |-> FALSE, status |-> 401, detail |-> "Invalid API key", token |-> <<>>]
         ELSE [ok |-> TRUE, status |-> 0, detail |-> "", token |-> ExtractToken(authorization.v)]

-----------------------------------------------------------------------------
(* Configuration and inputs *)

\* api.py:22, os.getenv("SEEDVC_AUDIO_PATH", ...); the model runs with the
\* variable set to "/srv"
LOCAL_AUDIO_PATH == <<"/", "s", "r", "v">>

\* api.py:71
SUPPORTED_GEMINI_VOICES == <<"echo", "alloy", "fable", "onyx", "nova", "shimmer">>

InList(x, list) == \E i \in 1..Len(list) : list[i] = x

Routes == {"/convert", "/voices", "/health"}

SecretK == <<"k">>

\* Authorization header values sent to the service
Headers ==
    { None, Some(<<>>), Some(SecretK), Some(BearerPrefix \o SecretK),
      Some(<<"x">>), Some(BearerPrefix \o <<"x">>) }

\* JSON bodies of POST /convert: each field is absent or a string
Texts == {None, Some(<<"H", "i">>)}
Voices == {None, Some("echo"), Some("invalid_voice")}
UserIds == {None, Some(<<>>), Some(<<"u">>), Some(<<"v">>)}
Bodies == [text : Texts, voice : Voices, user_id : UserIds]
NoBody == [text |-> None, voice |-> None, user_id |-> None]

\* what the synthesis capability can return as audio_content
Byte == {0, 1}
AudioPayloads == UNION { [1..n -> Byte] : n \in 1..MaxAudioLen }

\* values uuid.uuid4() can produce, as str
UuidPool == { <<"i", "d", ToString(n)>> : n \in 1..NumReq }

ApiKeys == {None, Some(SecretK)}
GeminiKeys == {None, Some(<<>>), Some(<<"g">>)}

-----------------------------------------------------------------------------
(* File system helpers *)

\* os.path.join(a, b)
PathJoin(a, b) ==
    IF Len(b) > 0 /\ b[1] = "/" THEN b
    ELSE IF Len(a) = 0 \/ a[Len(a)] = "/" THEN a \o b
    ELSE a \o <<"/">> \o b

\* the directories os.makedirs(p) leaves in place: p and its ancestors
MadeDirs(p) ==
    { SubSeq(p, 1, i) : i \in { j \in 1..Len(p) : j = Len(p) \/ p[j + 1] = "/" } }

\* os.path.exists(p)
PathExists(p) == p \in DOMAIN files \/ p \in dirs

Prefixes(b) == { SubSeq(b, 1, n) : n \in 0..Len(b) }

DotWav == <<".", "w", "a", "v">>
AudioMount == <<"/", "a", "u", "d", "i", "o", "/">>

-----------------------------------------------------------------------------
(* Request slots *)

InitReq ==
    [ pc |-> "idle", route |-> "", header |-> None, body |-> NoBody,
      status |-> 0, detail |-> <<>>,
      audio_url |-> <<>>, local_path |-> <<>>, voices |-> <<>>, health |-> <<>>,
      audio_bytes |-> None, audio_id |-> <<>>, full_path |-> None, exc |-> <<>>,
      synthCalls |-> 0, mkdirCalls |-> 0, openCalls |-> 0, writeCalls |-> 0,
      existsCalls |-> 0, removed |-> <<>>, removeError |-> FALSE,
      provider |-> "", provided |-> <<>>, libattr |-> "" ]

\* raise HTTPException(status_code, detail): the request ends with this response
Raise(q, status, detail) ==
    [q EXCEPT !.pc = "done", !.status = status, !.detail = detail]

Init ==
    /\ API_KEY \in ApiKeys
    /\ GEMINI_API_KEY \in GeminiKeys
    /\ dirs = MadeDirs(LOCAL_AUDIO_PATH)
    /\ files = << >>
    /\ req = [r \in {1} |-> InitReq]
    /\ authHeader = None
    /\ authResult = verify_api_key(None, API_KEY)

\* a request arrives at one of the routes
Receive(r) ==
    /\ req[r].pc = "idle"
    /\ \E route \in Routes, h \in Headers, b \in Bodies :
          /\ route # "/convert" => b = NoBody
          /\ req' = [req EXCEPT ![r] = [@ EXCEPT !.pc = "auth", !.route = route,
                                                 !.header = h, !.body = b]]
    /\ UNCHANGED <<API_KEY, GEMINI_API_KEY, dirs, files, authHeader, authResult>>

\* variant: the dependency is left off GET /health
Authenticate_healthOpen(r) ==
    /\ req[r].pc = "auth"
    /\ LET res == verify_api_key(req[r].header, API_KEY) IN
          req' = [req EXCEPT ![r] =
                    IF res.ok \/ req[r].route = "/health" THEN [@ EXCEPT !.pc = "body"]
                    ELSE Raise(@, res.status, <<res.detail>>)]
    /\ UNCHANGED <<API_KEY, GEMINI_API_KEY, dirs, files, authHeader, authResult>>

\* dependencies=[Depends(verify_api_key)] on all three routes
Authenticate(r) ==
    /\ req[r].pc = "auth"
    /\ LET res == verify_api_key(req[r].header, API_KEY) IN
          req' = [req EXCEPT ![r] =
                    IF res.ok THEN [@ EXCEPT !.pc = "body"]
                    ELSE Raise(@, res.status, <<res.detail>>)]
    /\ UNCHANGED <<API_KEY, GEMINI_API_KEY, dirs, files, authHeader, authResult>>

\* the fields of TextToSpeechRequest are required
BodyValid(route, b) ==
    route = "/convert" => (b.text.some /\ b.voice.some /\ b.user_id.some)

\* FastAPI validates the body against TextToSpeechRequest before the handler runs
ParseBody(r) ==
    /\ req[r].pc = "body"
    /\ req' = [req EXCEPT ![r] =
                 IF BodyValid(@.route, @.body) THEN [@ EXCEPT !.pc = "handler"]
                 ELSE Raise(@, 422, <<"Field required">>)]
    /\ UNCHANGED <<API_KEY, GEMINI_API_KEY, dirs, files, authHeader, authResult>>

\* variant: the voices are returned in alphabetical order
list_voices_sorted(r) ==
    /\ req[r].pc = "handler" /\ req[r].route = "/voices"
    /\ req' = [req EXCEPT ![r] =
                 [@ EXCEPT !.pc = "done", !.status = 200,
                           !.voices = <<"alloy", "echo", "fable", "nova", "onyx", "shimmer">>]]
    /\ UNCHANGED <<API_KEY, GEMINI_API_KEY, dirs, files, authHeader, authResult>>

\* GET /voices
list_voices(r) ==
    /\ req[r].pc = "handler" /\ req[r].route = "/voices"
    /\ req' = [req EXCEPT ![r] = [@ EXCEPT !.pc = "done", !.status = 200,
                                           !.voices = SUPPORTED_GEMINI_VOICES]]
    /\ UNCHANGED <<API_KEY, GEMINI_API_KEY, dirs, files, authHeader, authResult>>

\* variant: the library's own flag is not consulted
HealthBody_keyOnly(key, attr) ==
    IF ~Falsy(key) THEN <<"healthy", "gemini_configured">>
    ELSE <<"unhealthy", "gemini_api_key_missing">>

\* GET /health; attr is getattr(genai, '_is_configured', True) as the library
\* has it at the time of the call
HealthBody(key, attr) ==
    IF ~Falsy(key) /\ attr THEN <<"healthy", "gemini_configured">>
    ELSE IF ~Falsy(key) THEN <<"unhealthy", "gemini_api_key_present_but_not_fully_configured">>
    ELSE <<"unhealthy", "gemini_api_key_missing">>

\* what the genai module holds under the name _is_configured
LibAttrs == {"absent", "true", "false"}

\* getattr(genai, '_is_configured', True)
GetIsConfigured(lib) == IF lib = "absent" THEN TRUE ELSE lib = "true"

health_check(r) ==
    /\ req[r].pc = "handler" /\ req[r].route = "/health"
    /\ \E lib \in LibAttrs :
          req' = [req EXCEPT ![r] = [@ EXCEPT !.pc = "done", !.status = 200, !.libattr = lib,
                                              !.health = HealthBody(GEMINI_API_KEY,
                                                                    GetIsConfigured(lib))]]
    /\ UNCHANGED <<API_KEY, GEMINI_API_KEY, dirs, files, authHeader, authResult>>

-----------------------------------------------------------------------------
(* POST /convert, api.py:117-172 *)

ConfigDetail == "TTS service not configured (missing GEMINI_API_KEY)"
VoiceDetail == "Target voice not supported. Choose from: echo, alloy, fable, onyx, nova, shimmer"
UserIdDetail == "user_id is required"

\* variant: the voice check is left to generate_gemini_tts
ValidateRequest_noVoiceCheck(key, b) ==
    IF Falsy(key) THEN <<500, ConfigDetail>>
    ELSE IF Falsy(b.user_id) THEN <<400, UserIdDetail>>
    ELSE <<0, "">>

\* variant: the voice is checked before the provider configuration
ValidateRequest_voiceFirst(key, b) ==
    IF ~InList(b.voice.v, SUPPORTED_GEMINI_VOICES) THEN <<400, VoiceDetail>>
    ELSE IF Falsy(key) THEN <<500, ConfigDetail>>
    ELSE IF Falsy(b.user_id) THEN <<400, UserIdDetail>>
    ELSE <<0, "">>

\* variant: the user_id check is missing
ValidateRequest_noUserIdCheck(key, b) ==
    IF Falsy(key) THEN <<500, ConfigDetail>>
    ELSE IF ~InList(b.voice.v, SUPPORTED_GEMINI_VOICES) THEN <<400, VoiceDetail>>
    ELSE <<0, "">>

\* lines 119-127: the checks made before the try block, in the code's order;
\* the result is <<status, detail>>, status 0 when all three pass
ValidateRequest(key, b) ==
    IF Falsy(key) THEN <<500, ConfigDetail>>
    ELSE IF ~InList(b.voice.v, SUPPORTED_GEMINI_VOICES) THEN <<400, VoiceDetail>>
    ELSE IF Falsy(b.user_id) THEN <<400, UserIdDetail>>
    ELSE <<0, "">>

Validate(r) ==
    /\ req[r].pc = "handler" /\ req[r].route = "/convert"
    /\ LET v == ValidateRequest(GEMINI_API_KEY, req[r].body) IN
          req' = [req EXCEPT ![r] =
                    IF v[1] = 0 THEN [@ EXCEPT !.pc = "synth"]
                    ELSE Raise(@, v[1], <<v[2]>>)]
    /\ UNCHANGED <<API_KEY, GEMINI_API_KEY, dirs, files, authHeader, authResult>>

\* variant: a provider error is swallowed and empty audio is returned
TtsResult_swallow(voice, outcome, payload) ==
    IF outcome = "ok"
    THEN [ok |-> TRUE, called |-> 1, bytes |-> payload, exc |-> <<>>]
    ELSE [ok |-> TRUE, called |-> 1, bytes |-> <<>>, exc |-> <<>>]

\* generate_gemini_tts, lines 80-114.  outcome is what the provider does:
\* "ok" (a response with audio_content = payload), "raise" (the call raises)
\* or "noattr" (a response without audio_content)
TtsResult(voice, outcome, payload) ==
    IF ~InList(voice, SUPPORTED_GEMINI_VOICES)
    THEN [ok |-> FALSE, called |-> 0, bytes |-> <<>>,
          exc |-> <<"Gemini TTS generation failed: ", "Voice is not supported.">>]
    ELSE IF outcome = "raise"
    THEN [ok |-> FALSE, called |-> 1, bytes |-> <<>>,
          exc |-> <<"Gemini TTS generation failed: ", "Gemini API Error">>]
    ELSE IF outcome = "noattr"
    THEN [ok |-> FALSE, called |-> 1, bytes |-> <<>>,
          exc |-> <<"Gemini TTS generation failed: ",
                    "Gemini TTS response structure changed or audio_content missing.">>]
    ELSE [ok |-> TRUE, called |-> 1, bytes |-> payload, exc |-> <<>>]

\* variant: a failed synthesis call is made a second time
Synthesize_retry(r) ==
    /\ req[r].pc = "synth"
    /\ \E outcome \in {"ok", "raise", "noattr"}, payload \in AudioPayloads \cup {<<>>} :
          /\ outcome = "ok" <=> payload \in AudioPayloads
          /\ LET res == TtsResult(req[r].body.voice.v, outcome, payload) IN
                req' = [req EXCEPT ![r] =
                          IF res.ok
                          THEN [@ EXCEPT !.pc = "mkdir", !.audio_bytes = Some(res.bytes),
                                         !.synthCalls = @ + res.called,
                                         !.provider = outcome, !.provided = payload]
                          ELSE IF req[r].synthCalls = 0
                          THEN [@ EXCEPT !.synthCalls = @ + res.called,
                                         !.provider = outcome, !.provided = payload]
                          ELSE [@ EXCEPT !.pc = "except", !.exc = res.exc,
                                         !.synthCalls = @ + res.called,
                                         !.provider = outcome, !.provided = payload]]
    /\ UNCHANGED <<API_KEY, GEMINI_API_KEY, dirs, files, authHeader, authResult>>

\* line 133: audio_bytes = await generate_gemini_tts(...)
Synthesize(r) ==
    /\ req[r].pc = "synth"
    /\ \E outcome \in {"ok", "raise", "noattr"}, payload \in AudioPayloads \cup {<<>>} :
          /\ outcome = "ok" <=> payload \in AudioPayloads
          /\ LET res == TtsResult(req[r].body.voice.v, outcome, payload) IN
                req' = [req EXCEPT ![r] =
                          IF res.ok
                          THEN [@ EXCEPT !.pc = "mkdir", !.audio_bytes = Some(res.bytes),
                                         !.synthCalls = @ + res.called,
                                         !.provider = outcome, !.provided = payload]
                          ELSE [@ EXCEPT !.pc = "except", !.exc = res.exc,
                                         !.synthCalls = @ + res.called,
                                         !.provider = outcome, !.provided = payload]]
    /\ UNCHANGED <<API_KEY, GEMINI_API_KEY, dirs, files, authHeader, authResult>>

\* variant: the id is not unique per request
FreshIds_reused == UuidPool

\* uuid.uuid4() returns a value no earlier call returned
UsedIds == { req[r].audio_id : r \in DOMAIN req }
FreshIds == UuidPool \ UsedIds

\* line 138 and line 143
OutputFilename(audio_id) == audio_id \o DotWav
UserAudioDir(user_id) == PathJoin(LOCAL_AUDIO_PATH, user_id)
FullPath(user_id, audio_id) == PathJoin(UserAudioDir(user_id), OutputFilename(audio_id))

\* variant: os.makedirs(user_audio_dir) without exist_ok=True
MakedirsOutcome_noExistOk(d, oserror) ==
    IF d \in DOMAIN files \/ d \in dirs THEN "FileExistsError"
    ELSE IF oserror THEN "OSError"
    ELSE "ok"

\* line 141, os.makedirs(d, exist_ok=True): an existing directory is accepted,
\* a regular file at d raises FileExistsError, and the operating system may
\* refuse for reasons of its own
MakedirsOutcome(d, oserror) ==
    IF d \in DOMAIN files THEN "FileExistsError"
    ELSE IF oserror THEN "OSError"
    ELSE "ok"

\* lines 135-141: the id, the file name, the owner directory and
\* os.makedirs(user_audio_dir, exist_ok=True)
MakeDirs(r) ==
    /\ req[r].pc = "mkdir"
    /\ \E id \in FreshIds, oserror \in BOOLEAN :
          LET d == UserAudioDir(req[r].body.user_id.v)
              out == MakedirsOutcome(d, oserror)
              fails == out # "ok"
          IN IF fails
             THEN /\ req' = [req EXCEPT ![r] = [@ EXCEPT !.pc = "except", !.audio_id = id,
                                                         !.mkdirCalls = @ + 1,
                                                         !.exc = <<"makedirs: " \o out>>]]
                  /\ dirs' = dirs
             ELSE /\ req' = [req EXCEPT ![r] = [@ EXCEPT !.pc = "open", !.audio_id = id,
                                                         !.mkdirCalls = @ + 1]]
                  /\ dirs' = dirs \cup MadeDirs(d)
    /\ UNCHANGED <<API_KEY, GEMINI_API_KEY, files, authHeader, authResult>>

\* lines 143-146: full_path is bound, then open(full_path, "wb") creates the
\* file or truncates it; it raises when the path is a directory or when the
\* operating system refuses
OpenFile(r) ==
    /\ req[r].pc = "open"
    /\ \E oserror \in BOOLEAN :
          LET p == FullPath(req[r].body.user_id.v, req[r].audio_id)
              fails == oserror \/ p \in dirs
          IN IF fails
             THEN /\ req' = [req EXCEPT ![r] = [@ EXCEPT !.pc = "except", !.full_path = Some(p),
                                                         !.openCalls = @ + 1,
                                                         !.exc = <<"open: OSError">>]]
                  /\ files' = files
             ELSE /\ req' = [req EXCEPT ![r] = [@ EXCEPT !.pc = "write", !.full_path = Some(p),
                                                         !.openCalls = @ + 1]]
                  /\ files' = (p :> <<>>) @@ files
    /\ UNCHANGED <<API_KEY, GEMINI_API_KEY, dirs, authHeader, authResult>>

\* variant: the bytes never reach the file
Written_dropped(fs, p, data) == fs

\* the content of path p after data is written through an open descriptor:
\* a file unlinked in the meantime is not brought back
Written(fs, p, data) == IF p \in DOMAIN fs THEN (p :> data) @@ fs ELSE fs

\* line 154
AudioUrlPath(user_id, audio_id) ==
    AudioMount \o user_id \o <<"/">> \o OutputFilename(audio_id)

\* lines 147-161: f.write(audio_bytes) and the close at the end of the with
\* block, then the 200 response; when the write raises, some prefix of the
\* bytes has reached the file
WriteFile(r) ==
    /\ req[r].pc = "write"
    /\ LET p == req[r].full_path.v
           b == req[r].audio_bytes.v
       IN \/ /\ files' = Written(files, p, b)
             /\ req' = [req EXCEPT ![r] =
                          [@ EXCEPT !.pc = "done", !.status = 200, !.writeCalls = @ + 1,
                                    !.audio_url = AudioUrlPath(req[r].body.user_id.v,
                                                               req[r].audio_id),
                                    !.local_path = p]]
          \/ \E part \in Prefixes(b) :
                /\ files' = Written(files, p, part)
                /\ req' = [req EXCEPT ![r] = [@ EXCEPT !.pc = "except", !.writeCalls = @ + 1,
                                                       !.exc = <<"write: OSError">>]]
    /\ UNCHANGED <<API_KEY, GEMINI_API_KEY, dirs, authHeader, authResult>>

ConversionDetail(exc) == <<"Error in text to speech conversion: ">> \o exc

\* variant: the existence test is inverted
NeedsCleanup_inverted(q) == q.full_path.some /\ ~PathExists(q.full_path.v)

\* lines 162-165: the except block tests 'full_path' in locals() and
\* os.path.exists(full_path)
NeedsCleanup(q) == q.full_path.some /\ PathExists(q.full_path.v)

\* variant: an error that needs no cleanup is swallowed and an empty 200 is sent
ExceptCheck_swallow(r) ==
    /\ req[r].pc = "except"
    /\ req' = [req EXCEPT ![r] =
                 IF NeedsCleanup(@)
                 THEN [@ EXCEPT !.pc = "remove", !.existsCalls = @ + 1]
                 ELSE [@ EXCEPT !.pc = "done", !.status = 200]]
    /\ UNCHANGED <<API_KEY, GEMINI_API_KEY, dirs, files, authHeader, authResult>>

ExceptCheck(r) ==
    /\ req[r].pc = "except"
    /\ req' = [req EXCEPT ![r] =
                 IF NeedsCleanup(@)
                 THEN [@ EXCEPT !.pc = "remove", !.existsCalls = @ + 1]
                 ELSE [Raise(@, 500, ConversionDetail(@.exc))
                          EXCEPT !.existsCalls = IF req[r].full_path.some THEN @ + 1 ELSE @]]
    /\ UNCHANGED <<API_KEY, GEMINI_API_KEY, dirs, files, authHeader, authResult>>

\* the directory part of a path
DirName(p) ==
    LET cuts == { i \in 1..Len(p) : p[i] = "/" } IN
    IF cuts = {} THEN <<>>
    ELSE SubSeq(p, 1, (CHOOSE i \in cuts : \A j \in cuts : j <= i) - 1)

\* variant: the cleanup removes the owner's directory content, not the one file
Unlinked_wholeDir(fs, p) == [x \in { y \in DOMAIN fs : DirName(y) # DirName(p) } |-> fs[x]]

\* the file system after os.remove(p) returned
Unlinked(fs, p) == [x \in DOMAIN fs \ {p} |-> fs[x]]

\* variant: the OSError of os.remove is not caught and becomes the error sent
RemoveFile_escalates(r) ==
    /\ req[r].pc = "remove"
    /\ LET p == req[r].full_path.v IN
       \E oserror \in BOOLEAN :
          LET raised == oserror \/ p \notin DOMAIN files IN
          /\ files' = IF raised THEN files ELSE Unlinked(files, p)
          /\ req' = [req EXCEPT ![r] =
                       [Raise(@, 500, IF raised THEN <<"Internal Server Error">>
                                      ELSE ConversionDetail(@.exc))
                           EXCEPT !.removed = Append(@, p),
                                  !.removeError = raised]]
    /\ UNCHANGED <<API_KEY, GEMINI_API_KEY, dirs, authHeader, authResult>>

\* lines 166-172: os.remove(full_path); an OSError is logged and the file
\* stays; then the 500 response
RemoveFile(r) ==
    /\ req[r].pc = "remove"
    /\ LET p == req[r].full_path.v IN
       \E oserror \in BOOLEAN :
          /\ files' = IF oserror \/ p \notin DOMAIN files THEN files ELSE Unlinked(files, p)
          /\ req' = [req EXCEPT ![r] =
                       [Raise(@, 500, ConversionDetail(@.exc))
                           EXCEPT !.removed = Append(@, p),
                                  !.removeError = oserror \/ p \notin DOMAIN files]]
    /\ UNCHANGED <<API_KEY, GEMINI_API_KEY, dirs, authHeader, authResult>>

-----------------------------------------------------------------------------

Next ==
    \/ \E r \in DOMAIN req : Receive(r)
    \/ \E r \in DOMAIN req : Authenticate(r)
    \/ \E r \in DOMAIN req : ParseBody(r)
    \/ \E r \in DOMAIN req : list_voices(r)
    \/ \E r \in DOMAIN req : health_check(r)
    \/ \E r \in DOMAIN req : Validate(r)
    \/ \E r \in DOMAIN req : Synthesize(r)
    \/ \E r \in DOMAIN req : MakeDirs(r)
    \/ \E r \in DOMAIN req : OpenFile(r)
    \/ \E r \in DOMAIN req : WriteFile(r)
    \/ \E r \in DOMAIN req : ExceptCheck(r)
    \/ \E r \in DOMAIN req : RemoveFile(r)

Spec == Init /\ [][Next]_vars

\* a request that has arrived is run to its response: the event loop resumes
\* every handler, and the provider call and the file system calls return
Progress ==
    \/ \E r \in DOMAIN req : Authenticate(r)
    \/ \E r \in DOMAIN req : ParseBody(r)
    \/ \E r \in DOMAIN req : list_voices(r)
    \/ \E r \in DOMAIN req : health_check(r)
    \/ \E r \in DOMAIN req : Validate(r)
    \/ \E r \in DOMAIN req : Synthesize(r)
    \/ \E r \in DOMAIN req : MakeDirs(r)
    \/ \E r \in DOMAIN req : OpenFile(r)
    \/ \E r \in DOMAIN req : WriteFile(r)
    \/ \E r \in DOMAIN req : ExceptCheck(r)
    \/ \E r \in DOMAIN req : RemoveFile(r)

SpecLive == Init /\ [][Next]_vars /\ WF_vars(Progress)

-----------------------------------------------------------------------------
(* Concurrent requests: NumReq authenticated requests in flight at once on a
   configured service, their steps interleaved in every order *)

ConcHeader == Some(BearerPrefix \o SecretK)

ConcBodies ==
    { [text |-> Some(<<"H", "i">>), voice |-> Some("echo"), user_id |-> Some(u)] :
         u \in {<<"u">>, <<"v">>} }

InitConc ==
    /\ API_KEY = Some(SecretK)
    /\ GEMINI_API_KEY = Some(<<"g">>)
    /\ dirs = MadeDirs(LOCAL_AUDIO_PATH)
    /\ files = << >>
    /\ req = [r \in 1..NumReq |-> InitReq]
    /\ authHeader = None
    /\ authResult = verify_api_key(None, API_KEY)

ReceiveConc(r) ==
    /\ req[r].pc = "idle"
    /\ \E route \in Routes, b \in ConcBodies \cup {NoBody} :
          /\ route = "/convert" <=> b # NoBody
          /\ req' = [req EXCEPT ![r] = [@ EXCEPT !.pc = "auth", !.route = route,
                                                 !.header = ConcHeader, !.body = b]]
    /\ UNCHANGED <<API_KEY, GEMINI_API_KEY, dirs, files, authHeader, authResult>>

NextConc ==
    \/ \E r \in DOMAIN req : ReceiveConc(r)
    \/ \E r \in DOMAIN req : Authenticate(r)
    \/ \E r \in DOMAIN req : ParseBody(r)
    \/ \E r \in DOMAIN req : list_voices(r)
    \/ \E r \in DOMAIN req : health_check(r)
    \/ \E r \in DOMAIN req : Validate(r)
    \/ \E r \in DOMAIN req : Synthesize(r)
    \/ \E r \in DOMAIN req : MakeDirs(r)
    \/ \E r \in DOMAIN req : OpenFile(r)
    \/ \E r \in DOMAIN req : WriteFile(r)
    \/ \E r \in DOMAIN req : ExceptCheck(r)
    \/ \E r \in DOMAIN req : RemoveFile(r)

SpecConc == InitConc /\ [][NextConc]_vars

-----------------------------------------------------------------------------
(* Verifier harness: verify_api_key applied to header values and secrets
   built from at most MaxPieces pieces *)

Pieces == {BearerPrefix, SecretK}

PieceStrings(n) == UNION { { Concat(ps) : ps \in [1..m -> Pieces] } : m \in 0..n }

AuthSecrets == {None} \cup { Some(s) : s \in PieceStrings(MaxPieces) }
AuthHeaders == {None} \cup { Some(s) : s \in PieceStrings(MaxPieces) }

InitAuth ==
    /\ API_KEY \in AuthSecrets
    /\ GEMINI_API_KEY = None
    /\ dirs = MadeDirs(LOCAL_AUDIO_PATH)
    /\ files = << >>
    /\ req = [r \in {1} |-> InitReq]
    /\ authHeader = None
    /\ authResult = verify_api_key(None, API_KEY)

Verify ==
    /\ \E h \in AuthHeaders :
          /\ authHeader' = h
          /\ authResult' = verify_api_key(h, API_KEY)
    /\ UNCHANGED <<API_KEY, GEMINI_API_KEY, dirs, files, req>>

NextAuth == Verify

SpecAuth == InitAuth /\ [][NextAuth]_vars

-----------------------------------------------------------------------------
(* Properties *)

InitialDirs == MadeDirs(LOCAL_AUDIO_PATH)

\* the header is missing, or the token taken from it is not the secret
CredentialRejected(q) ==
    Falsy(q.header) \/ TokenDiffers(ExtractToken(q.header.v), API_KEY)

Authenticated(q) == ~CredentialRejected(q)

\* the request made no synthesis call and no storage call
NoSideEffect(q) ==
    /\ q.synthCalls = 0 /\ q.mkdirCalls = 0 /\ q.openCalls = 0 /\ q.writeCalls = 0
    /\ q.existsCalls = 0 /\ q.removed = <<>>
    /\ ~q.audio_bytes.some /\ ~q.full_path.some

Answered(q) == q.pc = "done"

\* C1: on each of the three routes a request whose Authorization header is
\* missing or whose token is not the configured secret goes no further than
\* the credential check, is answered 401, calls neither synthesis nor storage,
\* and leaves the file system as it was at startup.
C1_UnauthorizedIs401 ==
    \A r \in DOMAIN req :
        LET q == req[r] IN
        (q.pc # "idle" /\ CredentialRejected(q)) =>
            /\ q.pc \in {"auth", "done"}
            /\ Answered(q) => q.status = 401
            /\ NoSideEffect(q)
            /\ files = << >> /\ dirs = InitialDirs

C1_Witness ==
    \E r \in DOMAIN req :
        /\ Answered(req[r]) /\ req[r].status = 401
        /\ req[r].route = "/health"
        /\ req[r].header = Some(BearerPrefix \o <<"x">>)
        /\ API_KEY = Some(SecretK)

ConvertFailed(q) == Answered(q) /\ q.route = "/convert" /\ q.status # 200

\* the file the request created is the one at its full_path
OwnFileExists(q) == q.full_path.some /\ q.full_path.v \in DOMAIN files

\* C2 as stated: once /convert has answered with a status other than 200, the
\* file the request created is absent, whatever failed.
C2_NoArtifactAfterFailure ==
    \A r \in DOMAIN req :
        ConvertFailed(req[r]) => ~OwnFileExists(req[r])

\* C2 amended: once /convert has answered with a status other than 200, the
\* file the request created is absent unless the one os.remove call made on
\* it raised OSError.
C2_NoArtifactUnlessRemoveFailed ==
    \A r \in DOMAIN req :
        LET q == req[r] IN
        (ConvertFailed(q) /\ OwnFileExists(q)) =>
            (q.removeError /\ q.removed = <<q.full_path.v>>)

C2_Witness ==
    \E r \in DOMAIN req :
        LET q == req[r] IN
        /\ ConvertFailed(q) /\ q.status = 500
        /\ q.writeCalls = 1 /\ q.exc = <<"write: OSError">>
        /\ q.removed = <<q.full_path.v>> /\ ~q.removeError
        /\ ~OwnFileExists(q)

\* synthesis returned bytes and a later storage call raised
PersistFailed(q) ==
    /\ q.route = "/convert" /\ q.provider = "ok"
    /\ q.exc \in {<<"makedirs: OSError">>, <<"makedirs: FileExistsError">>,
                 <<"open: OSError">>, <<"write: OSError">>}

\* C3: when synthesis succeeds and creating the directory, opening the file
\* or writing the bytes raises, /convert answers 500 and os.remove has been
\* called exactly once, on the path the request was to write.
C3_RemoveOnceOnPersistFailure ==
    \A r \in DOMAIN req :
        LET q == req[r] IN
        (Answered(q) /\ PersistFailed(q)) =>
            /\ q.status = 500
            /\ q.removed = <<FullPath(q.body.user_id.v, q.audio_id)>>

\* the provider raised or answered without audio_content
SynthesisFailed(q) == q.route = "/convert" /\ q.provider \in {"raise", "noattr"}

\* C4: when the synthesis capability raises or returns a response without
\* audio_content, /convert answers 500 and the request makes no storage call:
\* no makedirs, no open, no write, no existence test, no remove; the file
\* system is as it was at startup.
C4_SynthesisFailureLeavesStore ==
    \A r \in DOMAIN req :
        LET q == req[r] IN
        SynthesisFailed(q) =>
            /\ q.pc \in {"except", "done"}
            /\ Answered(q) => q.status = 500
            /\ q.mkdirCalls = 0 /\ q.openCalls = 0 /\ q.writeCalls = 0
            /\ q.existsCalls = 0 /\ q.removed = <<>>
            /\ files = << >> /\ dirs = InitialDirs

C4_Witness ==
    \E r \in DOMAIN req :
        LET q == req[r] IN
        /\ Answered(q) /\ q.status = 500 /\ q.provider = "noattr" /\ q.synthCalls = 1

VoiceUnsupported(q) ==
    q.body.voice.some /\ ~InList(q.body.voice.v, SUPPORTED_GEMINI_VOICES)

Succeeded(q) == Answered(q) /\ q.route = "/convert" /\ q.status = 200

\* C7: two /convert requests of the same owner whose steps interleave and
\* that both answer 200 return different audio_url and different local_path,
\* and each local_path names a file holding the bytes of its own request.
C7_ConcurrentDistinctFiles ==
    \A r1, r2 \in DOMAIN req :
        LET a == req[r1]
            b == req[r2]
        IN (r1 # r2 /\ Succeeded(a) /\ Succeeded(b) /\ a.body.user_id = b.body.user_id) =>
              /\ a.audio_url # b.audio_url
              /\ a.local_path # b.local_path
              /\ a.local_path \in DOMAIN files /\ files[a.local_path] = a.provided
              /\ b.local_path \in DOMAIN files /\ files[b.local_path] = b.provided

C7_Witness ==
    \E r1, r2 \in DOMAIN req :
        LET a == req[r1]
            b == req[r2]
        IN /\ r1 # r2 /\ Succeeded(a) /\ Succeeded(b)
           /\ a.body.user_id = b.body.user_id
           /\ a.provided # b.provided
           /\ files[a.local_path] = a.provided /\ files[b.local_path] = b.provided

\* C8, for a configured provider, a supported voice and a present text: an
\* authenticated /convert request whose user_id is absent from the body or
\* empty is answered 400 without a synthesis or storage call.
C8_MissingOwnerIs400 ==
    \A r \in DOMAIN req :
        LET q == req[r] IN
        (Answered(q) /\ q.route = "/convert" /\ Authenticated(q)
            /\ ~Falsy(GEMINI_API_KEY) /\ q.body.text.some
            /\ q.body.voice.some /\ ~VoiceUnsupported(q)
            /\ Falsy(q.body.user_id)) =>
            (q.status = 400 /\ NoSideEffect(q))

\* C9, for bodies that carry text and voice: with the provider credential not
\* configured, every authenticated /convert request is answered 500 with the
\* configuration detail, without a synthesis or storage call.
C9_UnconfiguredIs500 ==
    \A r \in DOMAIN req :
        LET q == req[r] IN
        (Answered(q) /\ q.route = "/convert" /\ Authenticated(q) /\ Falsy(GEMINI_API_KEY)
            /\ q.body.text.some /\ q.body.voice.some) =>
            (q.status = 500 /\ q.detail = <<ConfigDetail>> /\ NoSideEffect(q))

\* the header value with a leading "Bearer " taken off, and nothing else
StripLeadingBearer(h) ==
    IF StartsWith(h, BearerPrefix) THEN SubSeq(h, Len(BearerPrefix) + 1, Len(h)) ELSE h

\* C10, for the secret "k": a non-empty header value verifies exactly when
\* the value with only a leading "Bearer " taken off equals the secret, and
\* the token returned is then the secret.
C10_OnlyLeadingPrefixStripped ==
    (API_KEY = Some(SecretK) /\ ~Falsy(authHeader)) =>
        /\ authResult.ok <=> (StripLeadingBearer(authHeader.v) = SecretK)
        /\ authResult.ok => authResult.token = SecretK

\* the response of a finished /convert request is one of the two outcomes
TerminalOutcome(q) ==
    \/ /\ q.status = 200
       /\ q.audio_url # <<>> /\ q.local_path # <<>>
       /\ q.provider = "ok" /\ q.synthCalls = 1 /\ q.writeCalls = 1
       /\ q.exc = <<>> /\ q.detail = <<>>
    \/ /\ q.status \notin 200..299 /\ q.status # 0
       /\ q.detail # <<>>
       /\ q.audio_url = <<>> /\ q.local_path = <<>>

\* C11: every /convert request that has arrived is answered; the answer is
\* either 200 with audio_url and local_path, given only after the synthesis
\* call and the file write of the request both completed, or a status outside
\* 2xx with a detail; once answered, the request keeps its answer.
C11_OneTerminalOutcome ==
    /\ [](\A r \in DOMAIN req :
            (Answered(req[r]) /\ req[r].route = "/convert") => TerminalOutcome(req[r]))
    /\ [][\A r \in DOMAIN req : Answered(req[r]) => req'[r] = req[r]]_vars
    /\ \A r \in {1} : (req[r].pc # "idle") ~> Answered(req[r])

C11_Witness ==
    \E r \in DOMAIN req :
        LET q == req[r] IN
        /\ Answered(q) /\ q.route = "/convert" /\ q.status = 500
        /\ q.provider = "ok" /\ q.exc = <<"open: OSError">>
        /\ q.detail = ConversionDetail(q.exc)

\* C12: GET /health with a valid credential is answered 200 and nothing else;
\* status is "healthy" exactly when GEMINI_API_KEY is set and the library's
\* flag, read with its default, says configured, and "unhealthy" otherwise;
\* without the provider credential tts_service is "gemini_api_key_missing".
C12_HealthReflectsConfig ==
    \A r \in DOMAIN req :
        LET q == req[r] IN
        (q.route = "/health" /\ Authenticated(q) /\ q.pc \notin {"idle", "auth", "body", "handler"}) =>
            /\ Answered(q) /\ q.status = 200
            /\ Len(q.health) = 2
            /\ q.health[1] \in {"healthy", "unhealthy"}
            /\ q.health[1] = "healthy" <=>
                  (GEMINI_API_KEY.some /\ GEMINI_API_KEY.v # <<>> /\ q.libattr # "false")
            /\ (~GEMINI_API_KEY.some \/ GEMINI_API_KEY.v = <<>>) =>
                  q.health[2] = "gemini_api_key_missing"

C12_Witness ==
    \E r \in DOMAIN req :
        LET q == req[r] IN
        /\ Answered(q) /\ q.route = "/health" /\ q.status = 200
        /\ GEMINI_API_KEY = Some(<<"g">>) /\ q.libattr = "false"
        /\ q.health[1] = "unhealthy"

\* C13: on a service that has taken other requests, of any route and any
\* outcome, GET /voices with a valid credential is answered 200 with the six
\* configured voices in their configured order, and no step of any request
\* changes the configured secrets.
C13_VoicesStable ==
    /\ [](\A r \in DOMAIN req :
            (req[r].route = "/voices" /\ Authenticated(req[r]) /\ Answered(req[r])) =>
                /\ req[r].status = 200
                /\ req[r].voices = <<"echo", "alloy", "fable", "onyx", "nova", "shimmer">>)
    /\ [][API_KEY' = API_KEY /\ GEMINI_API_KEY' = GEMINI_API_KEY]_vars

C13_Witness ==
    \E r1, r2 \in DOMAIN req :
        /\ r1 # r2
        /\ Answered(req[r1]) /\ req[r1].route = "/convert" /\ req[r1].status = 500
        /\ Answered(req[r2]) /\ req[r2].route = "/voices" /\ req[r2].status = 200
        /\ Len(req[r2].voices) = 6

\* the three checks of the handler all pass
ValidationPasses(q) ==
    /\ GEMINI_API_KEY.some /\ GEMINI_API_KEY.v # <<>>
    /\ q.body.text.some /\ q.body.voice.some /\ q.body.user_id.some
    /\ InList(q.body.voice.v, SUPPORTED_GEMINI_VOICES)
    /\ q.body.user_id.v # <<>>

StorageTouched(q) ==
    q.mkdirCalls > 0 \/ q.openCalls > 0 \/ q.writeCalls > 0 \/ q.existsCalls > 0
        \/ q.removed # <<>> \/ q.full_path.some

\* C14: within one /convert request a stage is entered only after the stage
\* before it is through: past the credential check the credential is valid;
\* synthesis is reached or called only after the validation passed; a storage
\* call of the request is made only after its one synthesis call returned
\* bytes.
C14_StagesOrdered ==
    \A r \in DOMAIN req :
        LET q == req[r] IN
        q.route = "/convert" =>
            /\ (q.pc \notin {"idle", "auth", "done"} \/ (Answered(q) /\ q.status # 401))
                  => Authenticated(q)
            /\ (q.pc \in {"synth", "mkdir", "open", "write", "except", "remove"}
                    \/ q.synthCalls > 0)
                  => (Authenticated(q) /\ ValidationPasses(q))
            /\ (q.pc \in {"mkdir", "open", "write", "remove"} \/ StorageTouched(q))
                  => (q.synthCalls = 1 /\ q.provider = "ok" /\ q.audio_bytes = Some(q.provided))

C14_Witness ==
    \E r \in DOMAIN req :
        LET q == req[r] IN
        /\ q.route = "/convert" /\ q.pc = "write"
        /\ q.mkdirCalls = 1 /\ q.openCalls = 1 /\ q.provider = "ok"

\* C15: a /convert request calls the synthesis capability at most once and
\* makes each storage call at most once; after a failed synthesis call or a
\* failed write it only goes on to its 500 response.
C15_NoRetry ==
    \A r \in DOMAIN req :
        LET q == req[r] IN
        /\ q.synthCalls <= 1 /\ q.mkdirCalls <= 1 /\ q.openCalls <= 1 /\ q.writeCalls <= 1
        /\ Len(q.removed) <= 1
        /\ q.provider \in {"raise", "noattr"} =>
              /\ q.pc \in {"except", "done"} /\ q.synthCalls = 1 /\ q.writeCalls = 0
              /\ Answered(q) => q.status = 500
        /\ (q.writeCalls = 1 /\ ~(Answered(q) /\ q.status = 200)) =>
              /\ q.pc \in {"except", "remove", "done"}
              /\ Answered(q) => q.status = 500

C15_Witness ==
    \E r \in DOMAIN req :
        LET q == req[r] IN
        /\ Answered(q) /\ q.status = 500 /\ q.provider = "raise"
        /\ q.synthCalls = 1 /\ q.writeCalls = 0

\* C16: when the write fails and the os.remove of the partial file fails as
\* well, /convert still answers 500 and the detail is that of the write
\* failure.
C16_CleanupFailureNotEscalated ==
    \A r \in DOMAIN req :
        LET q == req[r] IN
        q.removeError =>
            /\ Answered(q) /\ q.status = 500
            /\ q.writeCalls = 1 /\ q.exc = <<"write: OSError">>
            /\ q.detail = <<"Error in text to speech conversion: ", "write: OSError">>

C16_Witness ==
    \E r \in DOMAIN req :
        LET q == req[r] IN
        /\ q.removeError /\ q.removed = <<q.full_path.v>> /\ OwnFileExists(q)
        /\ Answered(q) /\ q.status = 500

\* the request's os.makedirs call returned without raising
MadeOwnerDir(q) ==
    q.mkdirCalls = 1 /\ q.exc \notin {<<"makedirs: OSError">>, <<"makedirs: FileExistsError">>}

\* C17: os.makedirs on the owner directory never raises because the directory
\* exists, whether an earlier request or a concurrent request of the same
\* owner created it, and the step that makes the call leaves every file as
\* it was and removes no directory.
C17_MakedirsIdempotent ==
    /\ [](\A r \in DOMAIN req : req[r].exc # <<"makedirs: FileExistsError">>)
    /\ [][\A r \in DOMAIN req :
            req'[r].mkdirCalls # req[r].mkdirCalls =>
                (files' = files /\ dirs \subseteq dirs')]_vars

C17_Witness ==
    \E r1, r2 \in DOMAIN req :
        /\ r1 # r2
        /\ req[r1].body.user_id = req[r2].body.user_id
        /\ Succeeded(req[r1]) /\ req[r1].local_path \in DOMAIN files
        /\ MadeOwnerDir(req[r2]) /\ req[r2].pc = "open"
        /\ UserAudioDir(req[r1].body.user_id.v) \in dirs

\* C18: from the moment a /convert request has answered 200, no step of any
\* request removes its file or changes the file's content, and a request only
\* ever passes os.remove the path built from its own id.
C18_ArtifactImmutable ==
    /\ [][\A r \in DOMAIN req :
            Succeeded(req[r]) =>
                /\ req[r].local_path \in DOMAIN files'
                /\ files'[req[r].local_path] = req[r].provided]_vars
    /\ [](\A r \in DOMAIN req :
            /\ Succeeded(req[r]) =>
                  (req[r].local_path \in DOMAIN files
                      /\ files[req[r].local_path] = req[r].provided)
            /\ \A i \in 1..Len(req[r].removed) :
                  req[r].removed[i] = FullPath(req[r].body.user_id.v, req[r].audio_id))

C18_Witness ==
    \E r1, r2 \in DOMAIN req :
        /\ r1 # r2
        /\ req[r1].body.user_id = req[r2].body.user_id
        /\ Succeeded(req[r1]) /\ files[req[r1].local_path] = req[r1].provided
        /\ Answered(req[r2]) /\ req[r2].status = 500
        /\ req[r2].removed # <<>> /\ ~req[r2].removeError

\* C19, for bodies that carry all three fields: the handler's rejections
\* have a fixed priority; an unconfigured provider gives 500 whatever else
\* fails, otherwise an unsupported voice gives 400 with the voice detail
\* whatever the user_id, otherwise an empty user_id gives 400 with the
\* user_id detail; the request is rejected without a side effect.
C19_ValidationPriority ==
    \A r \in DOMAIN req :
        LET q == req[r]
            unconfigured == ~GEMINI_API_KEY.some \/ GEMINI_API_KEY.v = <<>>
            emptyOwner == q.body.user_id.v = <<>>
        IN (Answered(q) /\ q.route = "/convert" /\ Authenticated(q)
                /\ BodyValid(q.route, q.body)
                /\ (unconfigured \/ VoiceUnsupported(q) \/ emptyOwner)) =>
              /\ NoSideEffect(q)
              /\ unconfigured => (q.status = 500 /\ q.detail = <<ConfigDetail>>)
              /\ (~unconfigured /\ VoiceUnsupported(q)) =>
                    (q.status = 400 /\ q.detail = <<VoiceDetail>>)
              /\ (~unconfigured /\ ~VoiceUnsupported(q) /\ emptyOwner) =>
                    (q.status = 400 /\ q.detail = <<UserIdDetail>>)

C19_Witness ==
    \E r \in DOMAIN req :
        LET q == req[r] IN
        /\ Answered(q) /\ q.route = "/convert" /\ Authenticated(q)
        /\ ~GEMINI_API_KEY.some
        /\ q.body.voice = Some("invalid_voice") /\ q.body.user_id = Some(<<>>)
        /\ q.status = 500

\* C20: with API_KEY unset the verifier rejects every header value, absent,
\* empty, with or without the "Bearer " prefix, with 401.
C20_UnsetSecretRejectsAll ==
    (~API_KEY.some) =>
        (~authResult.ok /\ authResult.status = 401
            /\ authResult.detail \in {"API key is missing", "Invalid API key"})

C20_Witness ==
    /\ ~API_KEY.some
    /\ authHeader = Some(BearerPrefix \o SecretK)
    /\ authResult.status = 401 /\ authResult.detail = "Invalid API key"

====
